---- MODULE Spec2Model ----
(***************************************************************************)
(* Mouse Mode capture session of the web scraping bot.                     *)
(*                                                                         *)
(* Two controllers are modelled side by side, chosen by `variant`:         *)
(*   "route"   : src/src/app/api/mouse-mode/route.ts                       *)
(*   "persist" : src/unnamed/part_001 (navigation watcher, CSV on disk)    *)
(* Both inject the same in-page instrumentor; where the two differ the     *)
(* operators below take the variant as a parameter.                        *)
(***************************************************************************)
EXTENDS Integers, Sequences, FiniteSets, TLC

VARIABLES
    variant,      \* which controller handles the request
    env,          \* process.env: [VERCEL, PRODUCTION, AWS_LAMBDA : BOOLEAN]
    request,      \* kind of request body received by POST
    dom,          \* the elements of the document served at the requested url
    pc,           \* position of POST in its code
    browser,      \* "null" | "open" | "closed": the Browser handle and its process
    headless,     \* launchBrowser's headless flag (meaningful once launched)
    exposed,      \* bridge entry points exposed on the page so far
    watcher,      \* page.on("framenavigated") registered
    pendingInject,\* framenavigated callbacks that still have to run injectMouseMode
    promise,      \* keypressPromise: [state: "absent" | "pending" | "resolved", value]
    bridge,       \* calls of window.sendSelectedData on their way to the controller,
                  \* each with the key whose handler made it
    page,         \* the document loaded in the controlled page (see FreshDocument)
    loaded,       \* page.goto has committed a document
    selectedElements, \* POST's local selectedElements
    csvPath,      \* POST's local csvPath ("" or the session's file), persist only
    csvFile,      \* TRUE once fs.writeFileSync(csvPath, ...) has succeeded
    response,     \* the NextResponse returned by POST, status 0 while none
    error,        \* an exception propagating to the main catch
    log,          \* observation counters (calls and events), not program state
    call,         \* a call of a helper on its own: [fn, arg, result, returned]
    clock,        \* Date.now() of the server, in milliseconds
    posts,        \* the requests part_001 handles side by side, from line 143 on
    files,        \* the files written by part_001: path -> content
    scrape,       \* one request to the scrape endpoint
    client,       \* the Mouse Mode page in the browser of the user
    db,           \* the User collection
    reqs          \* the requests the auth endpoints handle side by side

vars == <<variant, env, request, dom, pc, browser, headless, exposed, watcher,
          pendingInject, promise, bridge, page, loaded, selectedElements,
          csvPath, csvFile, response, error, log, call,
          clock, posts, files, scrape, client, db, reqs>>

(***************************************************************************)
(* Bounds of the model.                                                    *)
(***************************************************************************)
MaxSel == 2      \* longest accumulator explored
MaxNav == 1      \* navigations of the top-level frame after the first load
MaxRows == 2     \* longest selection set handed to an exporter
MaxText == 2     \* longest text of an exported element, in tokens
MaxUrl == 4      \* longest url of a request, in tokens

(***************************************************************************)
(* The elements a document may hold: the body and leaf elements.  Texts    *)
(* are sequences of characters so that trim() is computed, not assumed.    *)
(* Documents are the pages served at the urls the requests name.           *)
(***************************************************************************)
Body == "body"
Elements == {"body", "p1", "p2", "a1", "a2", "img1"}
Documents == { {"body", "p1", "p2"}, {"body", "a1", "a2"}, {"body", "img1"} }
None == "none"

Tag(e) ==
    CASE e = "body" -> "body"
      [] e \in {"p1", "p2"} -> "p"
      [] e \in {"a1", "a2"} -> "a"
      [] e = "img1" -> "img"

\* HTMLElement.innerText of each element, before trimming
InnerText(e) ==
    CASE e = "p1" -> <<"H", "i">>
      [] e = "p2" -> <<" ", "H", "i", " ">>
      [] e \in {"a1", "a2"} -> <<"G", "o">>
      [] OTHER -> <<>>

\* the attributes written in the markup; the inline style attribute is kept in
\* page.border and page.cursor and is left out of the attributes snapshot
Attrs(e) ==
    CASE e = "p1" -> [id |-> <<"1">>]
      [] e = "p2" -> [id |-> <<"2">>, class |-> <<"k">>]
      [] e = "a1" -> [id |-> <<"3">>, href |-> <<"/", "x">>]
      [] e = "a2" -> [id |-> <<"4">>, href |-> <<"/", "x">>]
      [] e = "img1" -> [src |-> <<"/", "i">>]
      [] OTHER -> [id |-> <<>>]

\* inline border and cursor written in the markup
MarkupBorder(e) == IF e = "a2" THEN "1px solid black" ELSE ""
MarkupCursor(e) == IF e = "a2" THEN "pointer" ELSE ""

highlightStyle == "3px dashed #ff0000"
selectedStyle == "3px solid #0066ff"
savedStyle == "3px solid #00cc00"
Null == "null"

\* String.prototype.trim
RECURSIVE TrimLeft(_)
TrimLeft(s) == IF s # <<>> /\ Head(s) = " " THEN TrimLeft(Tail(s)) ELSE s
RECURSIVE TrimRight(_)
TrimRight(s) ==
    IF s # <<>> /\ s[Len(s)] = " " THEN TrimRight(SubSeq(s, 1, Len(s) - 1)) ELSE s
Trim(s) == TrimRight(TrimLeft(s))

\* target.getAttribute(name) || dflt : a missing attribute (null) and "" are falsy
GetAttributeOr(e, name, dflt) ==
    IF name \in DOMAIN Attrs(e) /\ Attrs(e)[name] # <<>> THEN Attrs(e)[name] ELSE dflt

\* a || b on strings
Or(a, b) == IF a # <<>> THEN a ELSE b

\* the window and document of a freshly loaded page
FreshDocument ==
    [ doc |-> 0,                    \* documents committed in the page before this one
      ready |-> TRUE,               \* the document has reached domcontentloaded
      accDefined |-> FALSE,         \* win.geminiSelectedElements is not undefined
      acc |-> <<>>,                 \* win.geminiSelectedElements
      origin |-> <<>>,              \* for each accumulator entry, the node clicked
      lastHighlighted |-> None,     \* win.geminiLastHighlighted
      origBorder |-> Null,          \* win.geminiOriginalBorder
      origCursor |-> Null,          \* win.geminiOriginalCursor
      winOn |-> FALSE,              \* win.onMouseOver/onMouseOut/onClick/onKeyDown set
      winOnLive |-> FALSE,          \* the closures win.on* refer to are registered
      listeners |-> 0,              \* handler sets registered on document
      marked |-> [e \in Elements |-> FALSE],   \* classList has gemini-selected-element
      border |-> [e \in Elements |-> MarkupBorder(e)],  \* style.border
      cursor |-> [e \in Elements |-> MarkupCursor(e)] ] \* style.cursor

(***************************************************************************)
(* The instrumentor: the script injectMouseMode evaluates in the page.     *)
(* Each handler is a function from the page before the event to the page   *)
(* after it.  v is the variant whose script was injected.                  *)
(***************************************************************************)
Truthy(style) == style # Null /\ style # ""

\* the restoration block shared by onMouseOver, onMouseOut and fullCleanup
RestoreStyle(pg, el) ==
    [pg EXCEPT !.border[el] = IF Truthy(pg.origBorder) THEN pg.origBorder ELSE "",
               !.cursor[el] = IF Truthy(pg.origCursor) THEN pg.origCursor ELSE ""]

cleanupListeners(pg) ==
    IF pg.winOn /\ pg.winOnLive
    THEN [pg EXCEPT !.listeners = @ - 1, !.winOnLive = FALSE]
    ELSE pg

\* fullCleanup with a slip: the selected elements keep class and border
fullCleanup_KeepsMarks(pg, v) ==
    LET p1 == cleanupListeners(pg)
        p3 == IF p1.lastHighlighted # None
              THEN RestoreStyle(p1, p1.lastHighlighted) ELSE p1
    IN IF v = "route"
       THEN [p3 EXCEPT !.lastHighlighted = None]
       ELSE [p3 EXCEPT !.lastHighlighted = None, !.origBorder = Null,
                       !.origCursor = Null, !.winOn = FALSE, !.winOnLive = FALSE]

fullCleanup(pg, v) ==
    LET p1 == cleanupListeners(pg)
        p2 == [p1 EXCEPT !.border = [e \in Elements |->
                                        IF p1.marked[e] THEN "" ELSE p1.border[e]],
                         !.marked = [e \in Elements |-> FALSE]]
        p3 == IF p2.lastHighlighted # None
              THEN RestoreStyle(p2, p2.lastHighlighted) ELSE p2
    IN IF v = "route"
       THEN [p3 EXCEPT !.lastHighlighted = None]
       ELSE [p3 EXCEPT !.lastHighlighted = None, !.origBorder = Null,
                       !.origCursor = Null, !.winOn = FALSE, !.winOnLive = FALSE]

\* onMouseOver with a slip: the highlight also sets the marker class
onMouseOver_Marks(pg, target) ==
    IF target = Body \/ pg.marked[target] THEN pg
    ELSE [pg EXCEPT !.lastHighlighted = target, !.border[target] = highlightStyle,
                    !.marked[target] = TRUE]

onMouseOver(pg, target) ==
    IF target = Body \/ pg.marked[target] THEN pg
    ELSE LET p1 == IF pg.lastHighlighted # None /\ pg.lastHighlighted # target
                   THEN RestoreStyle(pg, pg.lastHighlighted) ELSE pg
         IN [p1 EXCEPT !.lastHighlighted = target,
                       !.origBorder = p1.border[target],
                       !.origCursor = p1.cursor[target],
                       !.border[target] = highlightStyle,
                       !.cursor[target] = "crosshair"]

onMouseOut(pg, target, v) ==
    IF target = pg.lastHighlighted /\ ~pg.marked[target]
    THEN LET p1 == RestoreStyle(pg, target)
         IN IF v = "route"
            THEN [p1 EXCEPT !.lastHighlighted = None]
            ELSE [p1 EXCEPT !.lastHighlighted = None, !.origBorder = Null,
                            !.origCursor = Null]
    ELSE pg

\* the text the deselect branch looks for
DeselectText(target, v) ==
    IF v = "route"
    THEN Or(Trim(InnerText(target)), GetAttributeOr(target, "src", <<>>))
    ELSE Or(Trim(InnerText(target)),
            Or(GetAttributeOr(target, "src", <<>>), GetAttributeOr(target, "href", <<>>)))

\* the text the select branch stores
SelectText(target) ==
    IF Tag(target) = "img" THEN GetAttributeOr(target, "src", <<>>)
    ELSE IF Tag(target) = "a" THEN GetAttributeOr(target, "href", Trim(InnerText(target)))
    ELSE Trim(InnerText(target))

\* Array.prototype.findIndex, 0 for -1
findIndex(acc, tag, text) ==
    LET hits == {i \in 1..Len(acc) : acc[i].tag = tag /\ acc[i].text = text}
    IN IF hits = {} THEN 0 ELSE CHOOSE i \in hits : \A j \in hits : i <= j

\* Array.prototype.splice(idx, 1)
splice(s, idx) == SubSeq(s, 1, idx - 1) \o SubSeq(s, idx + 1, Len(s))

\* the ScrapedElement pushed by a select
Snapshot(pg, target, v) ==
    [ text |-> SelectText(target),
      tag |-> Tag(target),
      id |-> GetAttributeOr(target, "id", <<>>),
      className |-> GetAttributeOr(target, "class", <<>>),
      attributes |-> Attrs(target),
      innerHTML |-> IF v = "route" THEN <<>> ELSE InnerText(target) ]

\* onClick with a slip: the test for document.body is missing
onClick_SelectsBody(pg, target, v) ==
    IF pg.marked[target]
    THEN LET idx == findIndex(pg.acc, Tag(target), DeselectText(target, v))
             p1 == [pg EXCEPT !.marked[target] = FALSE, !.border[target] = ""]
         IN IF idx > 0
            THEN [p1 EXCEPT !.acc = splice(@, idx), !.origin = splice(@, idx)]
            ELSE p1
    ELSE LET snap == Snapshot(pg, target, v)
             p1 == [pg EXCEPT !.border[target] = selectedStyle,
                              !.marked[target] = TRUE]
             p2 == IF p1.lastHighlighted = target
                   THEN [p1 EXCEPT !.lastHighlighted = None, !.origBorder = Null,
                                   !.origCursor = Null]
                   ELSE p1
         IN [p2 EXCEPT !.acc = Append(@, snap), !.origin = Append(@, target)]

onClick(pg, target, v) ==
    IF target = Body THEN pg
    ELSE IF pg.marked[target]
    THEN LET idx == findIndex(pg.acc, Tag(target), DeselectText(target, v))
             p1 == [pg EXCEPT !.marked[target] = FALSE, !.border[target] = ""]
         IN IF idx > 0
            THEN [p1 EXCEPT !.acc = splice(@, idx), !.origin = splice(@, idx)]
            ELSE p1
    ELSE LET snap == Snapshot(pg, target, v)
             p1 == [pg EXCEPT !.border[target] = selectedStyle,
                              !.marked[target] = TRUE]
             p2 == IF p1.lastHighlighted = target
                   THEN [p1 EXCEPT !.lastHighlighted = None, !.origBorder = Null,
                                   !.origCursor = Null]
                   ELSE p1
         IN [p2 EXCEPT !.acc = Append(@, snap), !.origin = Append(@, target)]

\* variants of sendSelectedDataArg with a slip: Enter sends nothing; Escape sends all
sendSelectedDataArg_EnterEmpty(pg, key) == <<>>
sendSelectedDataArg_EscapeAll(pg, key) == pg.acc

\* the argument onKeyDown passes to window.sendSelectedData
sendSelectedDataArg(pg, key) == IF key = "Enter" THEN pg.acc ELSE <<>>

onKeyDown(pg, key, v) ==
    IF key = "Enter"
    THEN LET p1 == cleanupListeners(pg)
         IN [p1 EXCEPT !.border = [e \in Elements |->
                                      IF p1.marked[e] THEN savedStyle ELSE p1.border[e]]]
    ELSE fullCleanup(pg, v)

\* install with a slip: the listeners of the previous call are not removed first
install_NoCleanup(pg) ==
    LET p1 == IF pg.accDefined THEN pg ELSE [pg EXCEPT !.accDefined = TRUE, !.acc = <<>>]
    IN [p1 EXCEPT !.lastHighlighted = None, !.origBorder = Null, !.origCursor = Null,
                  !.winOn = TRUE, !.winOnLive = TRUE, !.listeners = @ + 1]

\* install with a slip: the accumulator is initialised on every call
install_Resets(pg) ==
    LET p1 == [pg EXCEPT !.accDefined = TRUE, !.acc = <<>>, !.origin = <<>>]
        p2 == IF p1.winOn THEN cleanupListeners(p1) ELSE p1
    IN [p2 EXCEPT !.lastHighlighted = None, !.origBorder = Null, !.origCursor = Null,
                  !.winOn = TRUE, !.winOnLive = TRUE, !.listeners = @ + 1]

\* the body of page.evaluate in injectMouseMode
install(pg) ==
    LET p1 == IF pg.accDefined THEN pg ELSE [pg EXCEPT !.accDefined = TRUE, !.acc = <<>>]
        p2 == IF p1.winOn THEN cleanupListeners(p1) ELSE p1
    IN [p2 EXCEPT !.lastHighlighted = None, !.origBorder = Null, !.origCursor = Null,
                  !.winOn = TRUE, !.winOnLive = TRUE, !.listeners = @ + 1]

(***************************************************************************)
(* The capture session controller: POST.                                   *)
(***************************************************************************)
Variants == {"route", "persist"}
Requests == {"invalid_json", "url_missing", "url_not_string", "url_ok"}
Envs == [VERCEL : BOOLEAN, PRODUCTION : BOOLEAN, AWS_LAMBDA : BOOLEAN]

NoResponse == [status |-> 0, error |-> "", selectedElements |-> <<>>, message |-> ""]
ErrorResponse(status, err) ==
    [status |-> status, error |-> err, selectedElements |-> <<>>, message |-> ""]

\* launchBrowser: whether the browser is launched with headless: true
launchHeadless(v, e) ==
    IF v = "route" THEN e.VERCEL \/ e.PRODUCTION \/ e.AWS_LAMBDA
    ELSE e.VERCEL \/ e.PRODUCTION

\* const isServerless = process.env.VERCEL || process.env.NODE_ENV === "production"
isServerless(e) == e.VERCEL \/ e.PRODUCTION

\* the other endpoints and the page, while they are not part of a specification
SessionsIdle == clock = 0 /\ posts = <<>> /\ files = <<>>
ScrapeIdle == scrape = [pc |-> "idle"]
ClientIdle == client = [pc |-> "idle"]
AuthIdle == db = [users |-> <<>>] /\ reqs = <<>>

Init ==
    /\ SessionsIdle /\ ScrapeIdle /\ ClientIdle /\ AuthIdle
    /\ variant \in Variants
    /\ env \in Envs
    /\ variant = "persist" => ~env.AWS_LAMBDA     \* part_001 never reads it
    /\ request \in Requests
    /\ dom \in Documents
    /\ pc = "start"
    /\ browser = "null"
    /\ headless = FALSE
    /\ exposed = {}
    /\ watcher = FALSE
    /\ pendingInject = 0
    /\ promise = [state |-> "absent", value |-> <<>>]
    /\ bridge = <<>>
    /\ page = FreshDocument
    /\ loaded = FALSE
    /\ selectedElements = <<>>
    /\ csvPath = ""
    /\ csvFile = FALSE
    /\ response = NoResponse
    /\ error = ""
    /\ call = [fn |-> "", arg |-> <<>>, result |-> <<>>, returned |-> FALSE]
    /\ log = [ sendCalls |-> 0,       \* invocations of window.sendSelectedData
               closeCalls |-> 0,      \* invocations of browser.close
               navs |-> 0,            \* navigations after the first load
               clicked |-> FALSE,     \* some click was handled in this session
               failedAt |-> "",       \* the acquisition step that threw, if any
               gotoCalls |-> 0,       \* invocations of page.goto
               lastNav |-> "",        \* kind of the last framenavigated event
               firstKey |-> "",       \* the first terminal keystroke handled
               firstAcc |-> <<>> ]    \* the accumulator when that keystroke was handled

ctl == <<pc, browser, headless, exposed, watcher, promise, selectedElements,
         csvPath, csvFile, response, error>>
pagevars == <<page, loaded, bridge, pendingInject>>
\* what a capture session never changes: its inputs, and the helper call
sessionsvars == <<clock, posts, files>>
authvars == <<db, reqs>>
fixed == <<variant, env, request, dom, call, sessionsvars, scrape, client, authvars>>

\* lines 84-97 (route.ts), 109-122 (part_001)
ParseRequest ==
    /\ pc = "start"
    /\ CASE request = "invalid_json" ->
              /\ response' = ErrorResponse(400, "Invalid JSON body")
              /\ pc' = "done" /\ error' = error
         [] request = "url_missing" ->
              /\ response' = ErrorResponse(400, "URL is required")
              /\ pc' = "done" /\ error' = error
         [] request = "url_not_string" ->
              \* url.startsWith is not a function
              /\ error' = "TypeError" /\ pc' = "catch" /\ response' = response
         [] OTHER ->
              /\ pc' = "launch" /\ UNCHANGED <<response, error>>
    /\ UNCHANGED <<browser, headless, exposed, watcher, promise, selectedElements,
                   csvPath, csvFile, pagevars, fixed, log>>

\* lines 99-104
Launch ==
    /\ pc = "launch"
    /\ \/ /\ browser' = "open"
          /\ headless' = launchHeadless(variant, env)
          /\ pc' = "newContext"
          /\ UNCHANGED <<response, log>>
       \/ /\ response' = ErrorResponse(500, "Browser launch failed")
          /\ pc' = "done"
          /\ log' = [log EXCEPT !.failedAt = "launch"]
          /\ UNCHANGED <<browser, headless>>
    /\ UNCHANGED <<exposed, watcher, promise, selectedElements, csvPath, csvFile,
                   error, pagevars, fixed>>

\* lines 106-110: browser.newContext
NewContext ==
    /\ pc = "newContext"
    /\ \/ pc' = "newPage" /\ log' = log
       \/ pc' = "contextError" /\ log' = [log EXCEPT !.failedAt = "newContext"]
    /\ UNCHANGED <<browser, headless, exposed, watcher, promise, selectedElements,
                   csvPath, csvFile, response, error, pagevars, fixed>>

\* line 111: context.newPage
NewPage ==
    /\ pc = "newPage"
    /\ \/ pc' = "createPromise" /\ log' = log
       \/ pc' = "contextError" /\ log' = [log EXCEPT !.failedAt = "newPage"]
    /\ UNCHANGED <<browser, headless, exposed, watcher, promise, selectedElements,
                   csvPath, csvFile, response, error, pagevars, fixed>>

\* browser.close(): it resolves and the browser is gone with its pages, or it
\* rejects and leaves things as they are
CloseOutcomes == {"closed", "rejected"}
BrowserClose(outcome) ==
    /\ log' = [log EXCEPT !.closeCalls = @ + 1]
    /\ IF outcome = "closed"
       THEN /\ browser' = "closed"
            /\ page' = FreshDocument /\ loaded' = FALSE
            /\ bridge' = <<>> /\ pendingInject' = 0
       ELSE UNCHANGED <<browser, pagevars>>

\* lines 112-116: catch (contextError)
ContextErrorClose ==
    /\ pc = "contextError"
    /\ \E outcome \in CloseOutcomes :
         /\ BrowserClose(outcome)
         /\ IF outcome = "closed"
            THEN /\ response' = ErrorResponse(500, "Browser context creation failed")
                 /\ pc' = "done" /\ error' = error
            ELSE /\ error' = "close rejected" /\ pc' = "catch" /\ response' = response
    /\ UNCHANGED <<headless, exposed, watcher, promise, selectedElements, csvPath,
                   csvFile, fixed>>

\* lines 118-124: sessionId and keypressPromise
CreatePromise ==
    /\ pc = "createPromise"
    /\ promise' = [state |-> "pending", value |-> <<>>]
    /\ pc' = "exposeSend"
    /\ UNCHANGED <<browser, headless, exposed, watcher, selectedElements, csvPath,
                   csvFile, response, error, pagevars, fixed, log>>

\* lines 126-133: page.exposeFunction, twice
ExposeFunction(name, next) ==
    /\ \/ exposed' = exposed \cup {name} /\ pc' = next /\ error' = error
       \/ exposed' = exposed /\ pc' = "catch" /\ error' = "exposeFunction failed"
    /\ UNCHANGED <<browser, headless, watcher, promise, selectedElements, csvPath,
                   csvFile, response, pagevars, fixed, log>>

\* the first exposeFunction with a slip: the call is missing
ExposeSend_Skipped ==
    /\ pc = "exposeSend"
    /\ pc' = "exposeHandled"
    /\ UNCHANGED <<browser, headless, exposed, watcher, promise, selectedElements,
                   csvPath, csvFile, response, error, pagevars, fixed, log>>

ExposeSend == pc = "exposeSend" /\ ExposeFunction("sendSelectedData", "exposeHandled")
ExposeHandled == pc = "exposeHandled" /\ ExposeFunction("setKeypressHandled", "goto")

\* injectMouseMode: page.evaluate runs the instrumentor, or throws and is logged
EvaluateOutcomes == {"evaluated", "threw"}

\* injectMouseMode with a slip: the controller seeds the accumulator of a document
\* that has none with the selection set it has already received
injectMouseMode_CarriesForward(pg, outcome) ==
    IF outcome = "evaluated"
    THEN IF pg.accDefined THEN install(pg)
         ELSE [install(pg) EXCEPT !.acc = promise.value]
    ELSE pg

injectMouseMode(pg, outcome) == IF outcome = "evaluated" THEN install(pg) ELSE pg

\* lines 303-310: page.goto commits the first document, or throws
Goto ==
    /\ pc = "goto"
    /\ \/ /\ loaded' = TRUE /\ page' = FreshDocument /\ pc' = "inject"
          /\ log' = [log EXCEPT !.gotoCalls = @ + 1]
       \/ /\ UNCHANGED <<loaded, page>> /\ pc' = "navError"
          /\ log' = [log EXCEPT !.failedAt = "goto", !.gotoCalls = @ + 1]
    /\ UNCHANGED <<browser, headless, exposed, watcher, promise, selectedElements,
                   csvPath, csvFile, response, error, bridge, pendingInject, fixed>>

\* the first injection with a slip: page.evaluate outside try/catch, so that its
\* exception reaches the catch of the navigation block
InitialInject_Unguarded ==
    /\ pc = "inject"
    /\ \E outcome \in EvaluateOutcomes :
         /\ page' = IF browser = "open" THEN injectMouseMode(page, outcome) ELSE page
         /\ pc' = IF outcome = "threw" THEN "navError"
                  ELSE IF variant = "route" THEN "checkServerless" ELSE "registerWatcher"
    /\ log' = log
    /\ UNCHANGED <<browser, headless, exposed, watcher, promise, selectedElements,
                   csvPath, csvFile, response, error, loaded, bridge, pendingInject,
                   fixed>>

\* line 312: await injectMouseMode() after the first load
InitialInject ==
    /\ pc = "inject"
    /\ \E outcome \in EvaluateOutcomes :
         /\ page' = IF browser = "open" THEN injectMouseMode(page, outcome) ELSE page
         /\ log' = log
    /\ pc' = IF variant = "route" THEN "checkServerless" ELSE "registerWatcher"
    /\ UNCHANGED <<browser, headless, exposed, watcher, promise, selectedElements,
                   csvPath, csvFile, response, error, loaded, bridge, pendingInject,
                   fixed>>

\* the navigation catch with a slip: it returns without closing the browser
NavErrorClose_NoClose ==
    /\ pc = "navError"
    /\ response' = ErrorResponse(500, "Failed to load URL")
    /\ pc' = "done"
    /\ UNCHANGED <<browser, headless, exposed, watcher, promise, selectedElements,
                   csvPath, csvFile, error, pagevars, fixed, log>>

\* the navigation catch with a slip: the error is logged and POST goes on
NavErrorClose_Continues ==
    /\ pc = "navError"
    /\ pc' = IF variant = "route" THEN "checkServerless" ELSE "registerWatcher"
    /\ UNCHANGED <<browser, headless, exposed, watcher, promise, selectedElements,
                   csvPath, csvFile, response, error, pagevars, fixed, log>>

\* lines 313-317: catch (msg) of the navigation block
NavErrorClose ==
    /\ pc = "navError"
    /\ \E outcome \in CloseOutcomes :
         /\ BrowserClose(outcome)
         /\ IF outcome = "closed"
            THEN /\ response' = ErrorResponse(500, "Failed to load URL")
                 /\ pc' = "done" /\ error' = error
            ELSE /\ error' = "close rejected" /\ pc' = "catch" /\ response' = response
    /\ UNCHANGED <<headless, exposed, watcher, promise, selectedElements, csvPath,
                   csvFile, fixed>>

\* route.ts lines 320-343: the serverless check
CheckServerless ==
    /\ pc = "checkServerless"
    /\ variant = "route"
    /\ IF isServerless(env)
       THEN selectedElements' = <<>> /\ pc' = "close"
       ELSE selectedElements' = selectedElements /\ pc' = "await"
    /\ UNCHANGED <<browser, headless, exposed, watcher, promise, csvPath, csvFile,
                   response, error, pagevars, fixed, log>>

\* part_001 lines 349-360: page.on("framenavigated", ...)
RegisterWatcher ==
    /\ pc = "registerWatcher"
    /\ variant = "persist"
    /\ watcher' = TRUE
    /\ pc' = "await"
    /\ UNCHANGED <<browser, headless, exposed, promise, selectedElements, csvPath,
                   csvFile, response, error, pagevars, fixed, log>>

\* the wait with a slip: the promise is read without await
AwaitKeypress_NoWait ==
    /\ pc = "await"
    /\ selectedElements' = promise.value
    /\ IF variant = "persist" /\ Len(promise.value) > 0
       THEN /\ csvPath' = "tmpdir/mouse-mode-results-sessionId.csv"
            /\ csvFile' \in BOOLEAN
       ELSE UNCHANGED <<csvPath, csvFile>>
    /\ pc' = IF variant = "route" THEN "close" ELSE "closeAll"
    /\ UNCHANGED <<browser, headless, exposed, watcher, promise, response, error,
                   pagevars, fixed, log>>

\* selectedElements = await keypressPromise; in part_001 the synchronous code up
\* to the 2 s pause follows (lines 365-386: the CSV file of the session)
AwaitKeypress ==
    /\ pc = "await"
    /\ promise.state = "resolved"
    /\ selectedElements' = promise.value
    /\ IF variant = "persist" /\ Len(promise.value) > 0
       THEN /\ csvPath' = "tmpdir/mouse-mode-results-sessionId.csv"
            /\ csvFile' \in BOOLEAN     \* writeFileSync succeeds, or throws and is logged
       ELSE UNCHANGED <<csvPath, csvFile>>
    /\ pc' = IF variant = "route" THEN "close" ELSE "closeAll"
    /\ UNCHANGED <<browser, headless, exposed, watcher, promise, response, error,
                   pagevars, fixed, log>>

\* route.ts lines 352-356, part_001 line 395
SuccessResponse ==
    [status |-> 200, error |-> "", selectedElements |-> selectedElements,
     message |-> IF variant = "persist" THEN ""
                 ELSE IF isServerless(env)
                 THEN "Serverless mode: No interactive selection possible."
                 ELSE "Selection captured."]

\* part_001 lines 388-395: pages, context, browser, each with .catch(() => {}),
\* then the response
CloseAll ==
    /\ pc = "closeAll"
    /\ \E pagesOutcome, contextOutcome, outcome \in CloseOutcomes :
         /\ log' = [log EXCEPT !.closeCalls = @ + 1]
         /\ browser' = IF outcome = "closed" THEN "closed" ELSE browser
         /\ IF "closed" \in {pagesOutcome, contextOutcome, outcome}
            THEN /\ page' = FreshDocument /\ loaded' = FALSE
                 /\ bridge' = <<>> /\ pendingInject' = 0
            ELSE UNCHANGED pagevars
    /\ response' = SuccessResponse
    /\ pc' = "done"
    /\ UNCHANGED <<headless, exposed, watcher, promise, selectedElements, csvPath,
                   csvFile, error, fixed>>

\* the close of the success path with a slip: no .catch, a rejected close throws
CloseBrowser_Unguarded ==
    /\ pc = "close"
    /\ \E outcome \in CloseOutcomes :
         /\ BrowserClose(outcome)
         /\ IF outcome = "closed"
            THEN response' = SuccessResponse /\ pc' = "done" /\ error' = error
            ELSE response' = response /\ pc' = "catch" /\ error' = "close rejected"
    /\ UNCHANGED <<headless, exposed, watcher, promise, selectedElements, csvPath,
                   csvFile, fixed>>

\* route.ts lines 347-356: browser.close().catch(() => {}), then the response
CloseBrowser ==
    /\ pc = "close"
    /\ \E outcome \in CloseOutcomes : BrowserClose(outcome)
    /\ response' = SuccessResponse
    /\ pc' = "done"
    /\ UNCHANGED <<headless, exposed, watcher, promise, selectedElements, csvPath,
                   csvFile, error, fixed>>

\* the main catch with a slip: browser.close() outside try/catch, so a rejected
\* close leaves POST with an exception and without a response
MainCatch_Unguarded ==
    /\ pc = "catch"
    /\ pc' = "done"
    /\ IF browser # "null"
       THEN \E outcome \in CloseOutcomes :
              /\ BrowserClose(outcome)
              /\ response' = IF outcome = "closed"
                             THEN ErrorResponse(500, "Mouse Mode failed") ELSE response
       ELSE /\ UNCHANGED <<browser, log, pagevars>>
            /\ response' = ErrorResponse(500, "Mouse Mode failed")
    /\ UNCHANGED <<headless, exposed, watcher, promise, selectedElements, csvPath,
                   csvFile, error, fixed>>

\* route.ts lines 358-364, part_001 lines 397-403: the main catch
MainCatch ==
    /\ pc = "catch"
    /\ IF browser # "null"
       THEN \E outcome \in CloseOutcomes : BrowserClose(outcome)
       ELSE UNCHANGED <<browser, log, pagevars>>
    /\ response' = ErrorResponse(500, "Mouse Mode failed")
    /\ pc' = "done"
    /\ UNCHANGED <<headless, exposed, watcher, promise, selectedElements, csvPath,
                   csvFile, error, fixed>>

(***************************************************************************)
(* The session bridge: the callback exposed as window.sendSelectedData.    *)
(***************************************************************************)
\* resolveKeypressPromise(elements): settles a pending promise, else nothing
resolveKeypressPromise(pr, elements) ==
    IF pr.state = "pending" THEN [state |-> "resolved", value |-> elements] ELSE pr

\* lines 126-129: the binding call reaches the controller
ReceiveSelectedData ==
    /\ bridge # <<>>
    /\ browser = "open"
    /\ "sendSelectedData" \in exposed
    /\ promise' = resolveKeypressPromise(promise, Head(bridge).elements)
    /\ bridge' = Tail(bridge)
    /\ UNCHANGED <<pc, browser, headless, exposed, watcher, selectedElements, csvPath,
                   csvFile, response, error, page, loaded, pendingInject, fixed, log>>

(***************************************************************************)
(* The user in front of the visible browser window, and the page itself.   *)
(***************************************************************************)
\* the session lasts until POST has returned its response
SessionOpen == browser = "open" /\ loaded /\ pc # "done"
UserCanAct == SessionOpen /\ ~headless /\ page.listeners > 0

MouseOver(target) ==
    /\ UserCanAct
    /\ page' = onMouseOver(page, target)
    /\ UNCHANGED <<ctl, loaded, bridge, pendingInject, fixed, log>>

MouseOut(target) ==
    /\ UserCanAct
    /\ page' = onMouseOut(page, target, variant)
    /\ UNCHANGED <<ctl, loaded, bridge, pendingInject, fixed, log>>

Click(target) ==
    /\ UserCanAct
    /\ (target # Body /\ ~page.marked[target]) => Len(page.acc) < MaxSel
    /\ page' = onClick(page, target, variant)
    /\ log' = [log EXCEPT !.clicked = TRUE]
    /\ UNCHANGED <<ctl, loaded, bridge, pendingInject, fixed>>

Keys == {"Enter", "Escape"}

KeyDown(key) ==
    /\ UserCanAct
    /\ page' = onKeyDown(page, key, variant)
    /\ bridge' = Append(bridge, [key |-> key, elements |-> sendSelectedDataArg(page, key)])
    /\ log' = [log EXCEPT
                 !.sendCalls = @ + 1,
                 !.firstKey = IF @ = "" THEN key ELSE @,
                 !.firstAcc = IF log.firstKey = "" THEN page.acc ELSE @]
    /\ UNCHANGED <<ctl, loaded, pendingInject, fixed>>

\* part_001 lines 350-353: the tests of the framenavigated callback, with a
\* slip: the frame is not compared with page.mainFrame()
watcherAccepts_AnyFrame(frame, frameUrl) == frameUrl \notin {"about:blank", "file://"}

\* part_001 lines 350-353: the tests a framenavigated event has to pass before
\* the callback waits for the load state and injects
IgnoredUrls == {"about:blank", "file://"}
watcherAccepts(frame, frameUrl) == frame = "main" /\ frameUrl \notin IgnoredUrls

\* the page emits framenavigated: the callback registered by page.on, if any, runs
\* up to its first await
FrameNavigated(frame, frameUrl, kind) ==
    /\ pendingInject' = IF watcher /\ watcherAccepts(frame, frameUrl)
                        THEN pendingInject + 1 ELSE pendingInject
    /\ log' = [log EXCEPT !.navs = @ + 1, !.lastNav = kind]

\* the top-level frame commits a new document: window and DOM start afresh
NavigateNewDocument ==
    /\ SessionOpen
    /\ log.navs < MaxNav
    /\ page' = [FreshDocument EXCEPT !.doc = page.doc + 1, !.ready = FALSE]
    /\ FrameNavigated("main", "https://", "new")
    /\ UNCHANGED <<ctl, loaded, bridge, fixed>>

\* a same-document navigation (fragment, history.pushState): the window persists
NavigateSameDocument ==
    /\ SessionOpen
    /\ log.navs < MaxNav
    /\ FrameNavigated("main", "https://", "same")
    /\ UNCHANGED <<ctl, page, loaded, bridge, fixed>>

\* an iframe of the document navigates: the top-level document is untouched
NavigateSubFrame ==
    /\ SessionOpen
    /\ log.navs < MaxNav
    /\ FrameNavigated("sub", "https://", "sub")
    /\ UNCHANGED <<ctl, page, loaded, bridge, fixed>>

\* the top-level frame commits about:blank or a file:// document
NavigateIgnoredUrl(frameUrl) ==
    /\ SessionOpen
    /\ log.navs < MaxNav
    /\ page' = [FreshDocument EXCEPT !.doc = page.doc + 1, !.ready = FALSE]
    /\ FrameNavigated("main", frameUrl, frameUrl)
    /\ UNCHANGED <<ctl, loaded, bridge, fixed>>

\* the document committed by a navigation reaches domcontentloaded
DomContentLoaded ==
    /\ SessionOpen
    /\ ~page.ready
    /\ page' = [page EXCEPT !.ready = TRUE]
    /\ UNCHANGED <<ctl, loaded, bridge, pendingInject, fixed, log>>

\* part_001 lines 354-359: the rest of the framenavigated callback:
\* waitForLoadState("domcontentloaded") resolves and injectMouseMode runs, or one
\* of them throws and is logged
WatcherInject ==
    /\ pendingInject > 0
    /\ SessionOpen
    /\ \E outcome \in EvaluateOutcomes :
         /\ outcome = "evaluated" => page.ready
         /\ page' = injectMouseMode(page, outcome)
         /\ log' = log
    /\ pendingInject' = pendingInject - 1
    /\ UNCHANGED <<ctl, loaded, bridge, fixed>>

Next ==
    \/ ParseRequest \/ Launch \/ NewContext \/ NewPage \/ ContextErrorClose
    \/ CreatePromise \/ ExposeSend \/ ExposeHandled \/ Goto \/ InitialInject
    \/ NavErrorClose \/ CheckServerless \/ RegisterWatcher \/ AwaitKeypress
    \/ CloseAll \/ CloseBrowser \/ MainCatch
    \/ ReceiveSelectedData
    \/ \E target \in dom : MouseOver(target)
    \/ \E target \in dom : MouseOut(target)
    \/ \E target \in dom : Click(target)
    \/ \E key \in Keys : KeyDown(key)
    \/ NavigateNewDocument \/ NavigateSameDocument \/ NavigateSubFrame
    \/ \E frameUrl \in IgnoredUrls : NavigateIgnoredUrl(frameUrl)
    \/ DomContentLoaded \/ WatcherInject

Spec == Init /\ [][Next]_vars

(***************************************************************************)
(* The helpers, each called on its own: the two CSV exporters and the url  *)
(* preparation of POST.  A string is a sequence of tokens; a token is one   *)
(* of the characters the helpers look at (quote, line feed, slash, ...) or *)
(* a word that holds none of them.                                         *)
(***************************************************************************)
Quote == "\""
LineFeed == "\n"

\* String.prototype.replace(/ch/g, by)
RECURSIVE replaceAll(_, _, _)
replaceAll(s, ch, by) ==
    IF s = <<>> THEN <<>>
    ELSE (IF Head(s) = ch THEN by ELSE <<Head(s)>>) \o replaceAll(Tail(s), ch, by)

\* Array.prototype.join
RECURSIVE join(_, _)
join(parts, sep) ==
    IF parts = <<>> THEN <<>>
    ELSE IF Len(parts) = 1 THEN parts[1]
    ELSE parts[1] \o sep \o join(Tail(parts), sep)

\* String.prototype.startsWith
startsWith(s, prefix) == Len(s) >= Len(prefix) /\ SubSeq(s, 1, Len(prefix)) = prefix

\* JSON.stringify of a string: quote, backslash and line feed are escaped
JSONString(s) ==
    LET e1 == replaceAll(s, "\\", <<"\\", "\\">>)
        e2 == replaceAll(e1, Quote, <<"\\", Quote>>)
        e3 == replaceAll(e2, LineFeed, <<"\\", "n">>)
    IN <<Quote>> \o e3 \o <<Quote>>

\* JSON.stringify of the attributes record, keys in the order of the markup
AttrOrder == <<"id", "class", "href", "src">>
JSONStringify(attributes) ==
    LET keys == SelectSeq(AttrOrder, LAMBDA k : k \in DOMAIN attributes)
        members == [i \in 1..Len(keys) |->
                      <<Quote, keys[i], Quote, ":">> \o JSONString(attributes[keys[i]])]
    IN <<"{">> \o join(members, <<",">>) \o <<"}">>

\* part_001 lines 83-98: one cell of jsonToCsv
columns == <<"tag", "text", "id", "className", "attributes", "innerHTML">>
jsonToCsvCell(row, key) ==
    LET value ==
          IF key = "attributes"
          THEN replaceAll(JSONStringify(row.attributes), Quote, <<Quote, Quote>>)
          ELSE LET str == IF key = "tag" THEN <<row.tag>> ELSE row[key]
               IN replaceAll(replaceAll(str, Quote, <<Quote, Quote>>), LineFeed, <<" ">>)
    IN <<Quote>> \o value \o <<Quote>>

\* part_001 lines 79-102
jsonToCsv(jsonData) ==
    IF Len(jsonData) = 0 THEN <<>>
    ELSE LET header == join([k \in 1..Len(columns) |-> <<columns[k]>>], <<",">>)
             rows == [i \in 1..Len(jsonData) |->
                        join([k \in 1..Len(columns) |->
                                jsonToCsvCell(jsonData[i], columns[k])], <<",">>)]
         IN join(<<header>> \o rows, <<LineFeed>>)

\* page.tsx lines 16-36
headers == <<"Tag", "Text", "ID", "Class", "Attributes">>
generateCSV(data) ==
    IF Len(data) = 0 THEN <<>>
    ELSE LET quoted(str) == <<Quote>> \o replaceAll(str, Quote, <<Quote, Quote>>)
                                \o <<Quote>>
             values(row) == << <<row.tag>>,
                               quoted(row.text),
                               quoted(row.id),
                               quoted(row.className),
                               quoted(JSONStringify(row.attributes)) >>
             csvRows == <<join([k \in 1..Len(headers) |-> <<headers[k]>>], <<",">>)>>
                          \o [i \in 1..Len(data) |-> join(values(data[i]), <<",">>)]
         IN join(csvRows, <<LineFeed>>)

\* new URL(url, baseUrl).href for a root-relative url: the origin of the base and
\* the url; an undefined or relative base is no base
normalizeUrl(url, baseUrl) ==
    IF startsWith(url, <<"/", "/">>) THEN <<"https:">> \o url
    ELSE IF startsWith(url, <<"/">>) /\ baseUrl # <<>>
    THEN IF Len(baseUrl) >= 4 /\ baseUrl[2] = "/" /\ baseUrl[3] = "/"
         THEN SubSeq(baseUrl, 1, 4) \o url
         ELSE url
    ELSE url

\* POST lines 95-97 and 305: the url page.goto is called with
navigationUrl(url) ==
    LET prefixed == IF /\ ~startsWith(url, <<"http:", "/", "/">>)
                       /\ ~startsWith(url, <<"https:", "/", "/">>)
                    THEN <<"https:", "/", "/">> \o url
                    ELSE url
    IN normalizeUrl(prefixed, <<>>)

\* the inputs of the calls
SeqsUpTo(S, n) == UNION {[1..k -> S] : k \in 0..n}
ExampleText == <<"He said ", Quote, "hi", Quote, LineFeed, "bye">>
Texts == SeqsUpTo({"a", Quote, LineFeed}, MaxText) \cup {ExampleText}
ExportElements ==
    { [ text |-> t, tag |-> "p", id |-> <<"1">>, className |-> <<>>,
        attributes |-> [id |-> <<"1">>], innerHTML |-> t ] : t \in Texts }
SelectionSets == SeqsUpTo(ExportElements, MaxRows)
Urls == SeqsUpTo({"http:", "https:", "/", "host"}, MaxUrl) \ {<<>>}

Exporters == {"jsonToCsv", "generateCSV"}

HelperInit ==
    /\ SessionsIdle /\ ScrapeIdle /\ ClientIdle /\ AuthIdle
    /\ variant = "route"
    /\ env = [VERCEL |-> FALSE, PRODUCTION |-> FALSE, AWS_LAMBDA |-> FALSE]
    /\ request = "url_ok"
    /\ dom = {Body}
    /\ pc = "idle"
    /\ browser = "null"
    /\ headless = FALSE
    /\ exposed = {}
    /\ watcher = FALSE
    /\ pendingInject = 0
    /\ promise = [state |-> "absent", value |-> <<>>]
    /\ bridge = <<>>
    /\ page = FreshDocument
    /\ loaded = FALSE
    /\ selectedElements = <<>>
    /\ csvPath = ""
    /\ csvFile = FALSE
    /\ response = NoResponse
    /\ error = ""
    /\ log = [ sendCalls |-> 0, closeCalls |-> 0, navs |-> 0, clicked |-> FALSE,
               failedAt |-> "", gotoCalls |-> 0, lastNav |-> "", firstKey |-> "",
               firstAcc |-> <<>> ]
    /\ \/ \E fn \in Exporters, data \in SelectionSets :
             call = [fn |-> fn, arg |-> data, result |-> <<>>, returned |-> FALSE]
       \/ \E url \in Urls :
             call = [fn |-> "navigationUrl", arg |-> url, result |-> <<>>,
                     returned |-> FALSE]

session == <<ctl, pagevars, variant, env, request, dom, log,
             sessionsvars, scrape, client, authvars>>

CallJsonToCsv ==
    /\ call.fn = "jsonToCsv" /\ ~call.returned
    /\ call' = [call EXCEPT !.result = jsonToCsv(call.arg), !.returned = TRUE]
    /\ UNCHANGED session

CallGenerateCSV ==
    /\ call.fn = "generateCSV" /\ ~call.returned
    /\ call' = [call EXCEPT !.result = generateCSV(call.arg), !.returned = TRUE]
    /\ UNCHANGED session

CallNavigationUrl ==
    /\ call.fn = "navigationUrl" /\ ~call.returned
    /\ call' = [call EXCEPT !.result = navigationUrl(call.arg), !.returned = TRUE]
    /\ UNCHANGED session

HelperNext == CallJsonToCsv \/ CallGenerateCSV \/ CallNavigationUrl

HelperSpec == HelperInit /\ [][HelperNext]_vars

(***************************************************************************)
(* The capture session while another endpoint is studied: nothing launched. *)
(***************************************************************************)
Parked ==
    /\ variant = "persist"
    /\ request = "url_ok"
    /\ dom = {Body}
    /\ pc = "idle"
    /\ browser = "null"
    /\ headless = FALSE
    /\ exposed = {}
    /\ watcher = FALSE
    /\ pendingInject = 0
    /\ promise = [state |-> "absent", value |-> <<>>]
    /\ bridge = <<>>
    /\ page = FreshDocument
    /\ loaded = FALSE
    /\ selectedElements = <<>>
    /\ csvPath = ""
    /\ csvFile = FALSE
    /\ response = NoResponse
    /\ error = ""
    /\ call = [fn |-> "", arg |-> <<>>, result |-> <<>>, returned |-> FALSE]
    /\ log = [ sendCalls |-> 0, closeCalls |-> 0, navs |-> 0, clicked |-> FALSE,
               failedAt |-> "", gotoCalls |-> 0, lastNav |-> "", firstKey |-> "",
               firstAcc |-> <<>> ]

capture == <<ctl, pagevars, variant, env, request, dom, log, call>>

(***************************************************************************)
(* part_001 handling two requests side by side: the session id and the     *)
(* files of the sessions.                                                  *)
(***************************************************************************)
Posts == {1, 2}
MaxClock == 2    \* milliseconds the clock advances

\* Number.prototype.toString of a non-negative integer
Digits == <<"0", "1", "2", "3", "4", "5", "6", "7", "8", "9">>
RECURSIVE toString(_)
toString(n) ==
    IF n < 10 THEN <<Digits[n + 1]>>
    ELSE toString(n \div 10) \o <<Digits[(n % 10) + 1]>>

\* part_001 line 369
fileName(sessionId) == <<"mouse-mode-results-">> \o sessionId \o <<".csv">>

\* path.join(dir, fileName)
pathJoin(dir, name) == <<dir, "/">> \o name

\* what the user of session p may deliver: nothing, or one element of their own
SessionSelections(p) ==
    { <<>>,
      << [ text |-> toString(p), tag |-> "p", id |-> <<>>, className |-> <<>>,
           attributes |-> [id |-> <<>>], innerHTML |-> toString(p) ] >> }

\* fs.writeFileSync(path, content) that did not throw
writeFileSync(fs, path, content) ==
    [q \in DOMAIN fs \cup {path} |-> IF q = path THEN content ELSE fs[q]]

SessionsInit ==
    /\ Parked
    /\ env \in {e \in Envs : ~e.AWS_LAMBDA /\ ~e.PRODUCTION}
    /\ ScrapeIdle /\ ClientIdle /\ AuthIdle
    /\ clock = 0
    /\ posts = [p \in Posts |-> [pc |-> "start", sessionId |-> <<>>,
                                selectedElements |-> <<>>, csvPath |-> <<>>,
                                wrote |-> FALSE, response |-> <<>>]]
    /\ files = <<>>

sessionsrest == <<capture, scrape, client, authvars>>

\* the clock of the server advances by a millisecond
Tick ==
    /\ clock < MaxClock
    /\ clock' = clock + 1
    /\ UNCHANGED <<posts, files, sessionsrest>>

\* line 143: const sessionId = Date.now().toString()
NewSessionId(p) ==
    /\ posts[p].pc = "start"
    /\ posts' = [posts EXCEPT ![p].pc = "await", ![p].sessionId = toString(clock)]
    /\ UNCHANGED <<clock, files, sessionsrest>>

\* line 362: the await of keypressPromise returns what the user delivered
SessionDelivered(p) ==
    /\ posts[p].pc = "await"
    /\ \E sel \in SessionSelections(p) :
         posts' = [posts EXCEPT ![p].pc = "write", ![p].selectedElements = sel]
    /\ UNCHANGED <<clock, files, sessionsrest>>

\* lines 365-384: the CSV of the session in os.tmpdir() and, outside Vercel, in
\* process.cwd(); each writeFileSync succeeds, or throws and is caught
WriteCsv(p) ==
    /\ posts[p].pc = "write"
    /\ IF Len(posts[p].selectedElements) > 0
       THEN LET csvContent == jsonToCsv(posts[p].selectedElements)
                name == fileName(posts[p].sessionId)
                tmpPath == pathJoin("tmpdir", name)
                localPath == pathJoin("cwd", name)
            IN \E tmpOk \in BOOLEAN, localOk \in BOOLEAN :
                 LET f1 == IF tmpOk THEN writeFileSync(files, tmpPath, csvContent)
                           ELSE files
                     f2 == IF ~env.VERCEL /\ localOk
                           THEN writeFileSync(f1, localPath, csvContent) ELSE f1
                 IN /\ files' = f2
                    /\ posts' = [posts EXCEPT ![p].pc = "pause", ![p].csvPath = tmpPath,
                                              ![p].wrote = tmpOk]
       ELSE /\ files' = files
            /\ posts' = [posts EXCEPT ![p].pc = "pause"]
    /\ UNCHANGED <<clock, sessionsrest>>

\* lines 386-395: the pause, the closes and the response
SessionResponse(p) ==
    /\ posts[p].pc = "pause"
    /\ posts' = [posts EXCEPT ![p].pc = "done",
                              ![p].response = [selectedElements |-> posts[p].selectedElements,
                                               sessionId |-> posts[p].sessionId,
                                               csvPath |-> posts[p].csvPath]]
    /\ UNCHANGED <<clock, files, sessionsrest>>

SessionsNext ==
    \/ Tick
    \/ \E p \in Posts : NewSessionId(p)
    \/ \E p \in Posts : SessionDelivered(p)
    \/ \E p \in Posts : WriteCsv(p)
    \/ \E p \in Posts : SessionResponse(p)

SessionsSpec == SessionsInit /\ [][SessionsNext]_vars

(***************************************************************************)
(* The scrape endpoint: src/app/api/scrape/route.ts.                       *)
(***************************************************************************)
ScrapeRequests == {"invalid_json", "url_missing", "url_ok"}

\* what page.evaluate returns: the texts found, by tag, in the order of discovery
ScrapedData ==
    { <<>>,
      << [tag |-> "h1", items |-> << <<"T">> >>] >>,
      << [tag |-> "h1", items |-> << <<"T">> >>],
         [tag |-> "p", items |-> << <<"a", Quote>>, <<"b">> >>] >> }

\* Math.max(0, ...lengths)
maxRows(data) ==
    LET lens == {Len(data[i].items) : i \in 1..Len(data)} \cup {0}
    IN CHOOSE n \in lens : \A k \in lens : k <= n

\* lines 129-131: jsonForUI
RECURSIVE flatten(_)
flatten(data) ==
    IF data = <<>> THEN <<>> ELSE Head(data).items \o flatten(Tail(data))

\* lines 133-146: the csv of the scraped data, one column per tag
scrapeCsv(data) ==
    LET tags == [i \in 1..Len(data) |-> <<data[i].tag>>]
        cellAt(i, r) == IF r <= Len(data[i].items) THEN data[i].items[r] ELSE <<>>
        csvRows == <<tags>> \o [r \in 1..maxRows(data) |->
                                  [i \in 1..Len(data) |-> cellAt(i, r)]]
        quoted(c) == <<Quote>> \o replaceAll(c, Quote, <<Quote, Quote>>) \o <<Quote>>
        line(row) == join([i \in 1..Len(row) |-> quoted(row[i])], <<",">>)
    IN join([r \in 1..Len(csvRows) |-> line(csvRows[r])], <<LineFeed>>)

ScrapeInit ==
    /\ Parked
    /\ env \in {e \in Envs : ~e.AWS_LAMBDA}
    /\ SessionsIdle /\ ClientIdle /\ AuthIdle
    /\ \E rq \in ScrapeRequests :
         scrape = [ pc |-> "start", request |-> rq, browser |-> "null",
                    executable |-> "", closeCalls |-> 0, failedAt |-> "",
                    data |-> <<>>,
                    response |-> [status |-> 0, error |-> "", jsonForUI |-> <<>>,
                                  csv |-> <<>>] ]

scraperest == <<capture, sessionsvars, client, authvars>>

\* lines 9-12: req.json() throws on a malformed body; a body without url gets 400
ScrapeParse ==
    /\ scrape.pc = "start"
    /\ scrape' = CASE scrape.request = "invalid_json"
                        -> [scrape EXCEPT !.pc = "catch", !.failedAt = "json"]
                   [] scrape.request = "url_missing"
                        -> [scrape EXCEPT !.pc = "done", !.response.status = 400,
                                          !.response.error = "URL is required"]
                   [] OTHER -> [scrape EXCEPT !.pc = "launch"]
    /\ UNCHANGED scraperest

\* lines 14-31: playwright.launch with the bundled chromium or the local chrome
ScrapeLaunch ==
    /\ scrape.pc = "launch"
    /\ \/ scrape' = [scrape EXCEPT !.pc = "newContext", !.browser = "open",
                                   !.executable = IF env.VERCEL \/ env.PRODUCTION
                                                  THEN "sparticuz" ELSE "chrome"]
       \/ scrape' = [scrape EXCEPT !.pc = "catch", !.failedAt = "launch"]
    /\ UNCHANGED scraperest

\* an awaited call between the launch and the close: it returns, or it throws and
\* control goes to the catch of POST
ScrapeAwait(at, next) ==
    /\ scrape.pc = at
    /\ \/ /\ at # "evaluate"
          /\ scrape' = [scrape EXCEPT !.pc = next]
       \/ /\ at = "evaluate"
          /\ \E data \in ScrapedData : scrape' = [scrape EXCEPT !.pc = next, !.data = data]
       \/ scrape' = [scrape EXCEPT !.pc = "catch", !.failedAt = at]
    /\ UNCHANGED scraperest

ScrapeNewContext == ScrapeAwait("newContext", "newPage")     \* lines 33-36
ScrapeNewPage == ScrapeAwait("newPage", "goto")              \* line 37
ScrapeGoto == ScrapeAwait("goto", "autoScroll")              \* line 40
ScrapeAutoScroll == ScrapeAwait("autoScroll", "evaluate")    \* line 42
ScrapeEvaluate == ScrapeAwait("evaluate", "close")           \* lines 45-125

\* lines 127-148: browser.close, then the response is computed and returned
ScrapeClose ==
    /\ scrape.pc = "close"
    /\ \/ scrape' = [scrape EXCEPT !.pc = "done", !.browser = "closed",
                                   !.closeCalls = @ + 1,
                                   !.response = [status |-> 200, error |-> "",
                                                 jsonForUI |-> flatten(scrape.data),
                                                 csv |-> scrapeCsv(scrape.data)]]
       \/ scrape' = [scrape EXCEPT !.pc = "catch", !.closeCalls = @ + 1,
                                   !.failedAt = "close"]
    /\ UNCHANGED scraperest

\* lines 150-160: the catch of POST
ScrapeCatch ==
    /\ scrape.pc = "catch"
    /\ scrape' = [scrape EXCEPT !.pc = "done", !.response.status = 500,
                                !.response.error = "Scraping failed"]
    /\ UNCHANGED scraperest

ScrapeNext ==
    \/ ScrapeParse \/ ScrapeLaunch \/ ScrapeNewContext \/ ScrapeNewPage \/ ScrapeGoto
    \/ ScrapeAutoScroll \/ ScrapeEvaluate \/ ScrapeClose \/ ScrapeCatch

ScrapeSpec == ScrapeInit /\ [][ScrapeNext]_vars

(***************************************************************************)
(* The Mouse Mode page: src/app/mouse-mode/page.tsx.  The file holds two   *)
(* editions of the component; `edition` says which one is mounted.  A click *)
(* handler sees the state of the last render (client.view), and the state  *)
(* set inside a click handler is rendered before the next event.           *)
(***************************************************************************)
MaxFetch == 2    \* requests the page issues

Editions == {1, 2}

\* bodies of a 200 response: result.selectedElements, "none" when the key is missing
ResultElements ==
    { "none",
      <<>>,
      << [tag |-> "p", text |-> <<"a">>] >>,
      << [tag |-> "p", text |-> <<"a">>], [tag |-> "p", text |-> <<"a">>] >>,
      << [tag |-> "p", text |-> <<" ">>] >> }

\* what fetch may settle with: a network exception, or a response with its status
\* and its body; "text" is a body that is not JSON
FetchOutcomes ==
    {[kind |-> "exception"]}
      \cup {[kind |-> "response", status |-> 200, body |-> b] : b \in {"json", "text"}}
      \cup {[kind |-> "response", status |-> st, body |-> b] :
               st \in {400, 500}, b \in {"json", "json_no_error", "text"}}

\* page.tsx lines 86-90: duplicates of (tag, text) and empty texts are dropped
uniqueElements(raw) ==
    LET firstIndex(item) ==
          CHOOSE i \in 1..Len(raw) :
              /\ raw[i].tag = item.tag /\ raw[i].text = item.text
              /\ \A j \in 1..(i - 1) : ~(raw[j].tag = item.tag /\ raw[j].text = item.text)
        firsts == {i \in 1..Len(raw) : firstIndex(raw[i]) = i /\ Len(Trim(raw[i].text)) > 0}
        RECURSIVE pick(_)
        pick(i) == IF i > Len(raw) THEN <<>>
                   ELSE (IF i \in firsts THEN <<raw[i]>> ELSE <<>>) \o pick(i + 1)
    IN pick(1)

ClientInit ==
    /\ Parked
    /\ env = [VERCEL |-> FALSE, PRODUCTION |-> FALSE, AWS_LAMBDA |-> FALSE]
    /\ SessionsIdle /\ ScrapeIdle /\ AuthIdle
    /\ \E ed \in Editions :
         client = [ pc |-> "mounted", edition |-> ed, url |-> "",
                    loading |-> FALSE, sessionActive |-> FALSE,
                    view |-> [loading |-> FALSE, sessionActive |-> FALSE],
                    error |-> "", selectedData |-> <<>>,
                    showResults |-> FALSE, showNotification |-> FALSE,
                    calls |-> <<>>,     \* invocations of handleMouseMode at an await
                    issued |-> 0,       \* calls of fetch
                    alerts |-> 0 ]      \* calls of alert, up to MaxFetch

clientrest == <<capture, sessionsvars, scrape, authvars>>

\* the input of the url, disabled={sessionActive}
SetUrl(u) ==
    /\ ~client.view.sessionActive
    /\ client.url # u
    /\ client' = [client EXCEPT !.url = u]
    /\ UNCHANGED clientrest

\* the button of lines 158-160: disabled={loading || sessionActive}
buttonEnabled(c) == ~(c.view.loading \/ c.view.sessionActive)

\* handleMouseMode up to its first await (lines 56-75), after a click
ClickActivate ==
    /\ buttonEnabled(client)
    /\ client.issued < MaxFetch
    /\ IF client.url = "" \/ client.view.sessionActive
       THEN client' = [client EXCEPT !.alerts = IF @ < MaxFetch THEN @ + 1 ELSE @]
       ELSE client' = [client EXCEPT
                         !.loading = TRUE, !.sessionActive = TRUE,
                         !.view = [loading |-> TRUE, sessionActive |-> TRUE],
                         !.error = "", !.showResults = FALSE,
                         !.selectedData = IF client.edition = 1 THEN <<>> ELSE @,
                         !.calls = Append(@, [at |-> "fetch", status |-> 0, body |-> ""]),
                         !.issued = @ + 1]
    /\ UNCHANGED clientrest

\* the finally block with a slip: only loading is reset
finally_KeepsSession(c) == [c EXCEPT !.loading = FALSE]

\* lines 111-114: finally
finally(c) == [c EXCEPT !.loading = FALSE, !.sessionActive = FALSE]

\* lines 104-114: catch (err), then finally; the invocation i is over
catch(c, i, message) ==
    finally([c EXCEPT !.error = message, !.calls = splice(@, i)])

\* the fetch of invocation i settles: it rejects, or resolves with a response whose
\* body is still to be read (lines 71-82)
FetchSettles(i) ==
    /\ i \in 1..Len(client.calls)
    /\ client.calls[i].at = "fetch"
    /\ \E o \in FetchOutcomes :
         IF o.kind = "exception"
         THEN client' = catch(client, i, "Failed to fetch")
         ELSE client' = [client EXCEPT !.calls[i] = [at |-> "json", status |-> o.status,
                                                    body |-> o.body]]
    /\ UNCHANGED clientrest

\* res.json() of invocation i settles and the handler runs to its end
\* (lines 77-114)
JsonSettles(i) ==
    /\ i \in 1..Len(client.calls)
    /\ client.calls[i].at = "json"
    /\ LET c == client.calls[i]
       IN IF c.body = "text"
          THEN client' = catch(client, i, "Unexpected token")
          ELSE IF c.status # 200
          THEN client' = catch(client, i,
                               IF c.body = "json"
                               THEN (IF c.status = 400 THEN "URL is required"
                                     ELSE "Failed to load URL")
                               ELSE "Mouse Mode failed with status")
          ELSE \E result \in ResultElements :
                 LET raw == IF result = "none" THEN <<>> ELSE result
                     elements == IF client.edition = 1 THEN uniqueElements(raw) ELSE raw
                     c1 == [client EXCEPT !.selectedData = elements,
                                          !.calls = splice(@, i)]
                     c2 == IF Len(elements) > 0
                           THEN [c1 EXCEPT !.showResults = TRUE, !.showNotification = TRUE]
                           ELSE [c1 EXCEPT !.error =
                                    IF client.edition = 2 THEN "No elements were selected."
                                    ELSE IF Len(raw) = 0
                                    THEN "No elements were selected (or session timed out/headless mode)."
                                    ELSE "Selected elements were empty or duplicates."]
                 IN client' = finally(c2)
    /\ UNCHANGED clientrest

\* React renders the state that was set after an await
Render ==
    /\ client.view # [loading |-> client.loading, sessionActive |-> client.sessionActive]
    /\ client' = [client EXCEPT !.view = [loading |-> client.loading,
                                          sessionActive |-> client.sessionActive]]
    /\ UNCHANGED clientrest

\* lines 47-54: the notification disappears after 5 s
NotificationTimeout ==
    /\ client.showNotification
    /\ client' = [client EXCEPT !.showNotification = FALSE]
    /\ UNCHANGED clientrest

ClientNext ==
    \/ \E u \in {"", "https://example.com"} : SetUrl(u)
    \/ ClickActivate
    \/ \E i \in 1..MaxFetch : FetchSettles(i)
    \/ \E i \in 1..MaxFetch : JsonSettles(i)
    \/ Render
    \/ NotificationTimeout

ClientSpec == ClientInit /\ [][ClientNext]_vars

(***************************************************************************)
(* The auth endpoints: login (src/app/api/auth/login/route.ts) and          *)
(* registration (part_000), handling two requests side by side over one    *)
(* User collection.  The User model and dbConnect are imported by these    *)
(* files: the collection is a list of documents with findOne and save,     *)
(* with or without unique indexes on email and username (db.unique).       *)
(***************************************************************************)
Reqs == {1, 2}

\* String.prototype.toLowerCase
Lower(ch) == CASE ch = "A" -> "a" [] ch = "B" -> "b" [] OTHER -> ch
toLowerCase(str) == [i \in 1..Len(str) |-> Lower(str[i])]

\* z.string().email(): the address has an @ with something on both sides
isEmail(str) == \E i \in 2..(Len(str) - 1) : str[i] = "@"

\* the length of the passwords in play
PasswordLength(pw) == CASE pw = "secret1!" -> 8 [] pw = "short" -> 5 [] pw = "wrong-pw" -> 8
                        [] OTHER -> 0

\* the user registered before the requests arrive
KnownUser == [username |-> <<"a", "n", "n">>, email |-> <<"a", "@", "x">>,
              password |-> "secret1!"]

\* request bodies: shape is "empty" for no text, "invalid_json" for a text that
\* JSON.parse rejects, "json" for an object with the fields that follow
LoginBodies ==
    {[shape |-> sh, email |-> <<>>, password |-> ""] : sh \in {"empty", "invalid_json"}}
      \cup {[shape |-> "json", email |-> e, password |-> pw] :
               e \in {<<"a", "@", "x">>, <<"A", "@", "x">>, <<"b", "@", "x">>},
               pw \in {"secret1!", "wrong-pw"}}
      \cup {[shape |-> "json", email |-> <<"a", "x">>, password |-> "secret1!"],
            [shape |-> "json", email |-> <<"a", "@", "x">>, password |-> ""]}

RegisterBodies ==
    {[shape |-> "invalid_json", username |-> <<>>, email |-> <<>>, password |-> "",
      agreeToTerms |-> FALSE]}
      \cup {[shape |-> "json", username |-> u, email |-> e, password |-> "secret1!",
             agreeToTerms |-> TRUE] :
               u \in {<<"a", "n", "n">>, <<"B", "o", "b">>, <<"b", "o", "b">>},
               e \in {<<"a", "@", "x">>, <<"B", "@", "x">>, <<"b", "@", "x">>}}
      \cup {[shape |-> "json", username |-> <<"b", "o">>, email |-> <<"b", "@", "x">>,
             password |-> "secret1!", agreeToTerms |-> TRUE],
            [shape |-> "json", username |-> <<"b", "o", "b">>, email |-> <<"b", "@", "x">>,
             password |-> "short", agreeToTerms |-> TRUE],
            [shape |-> "json", username |-> <<"b", "o", "b">>, email |-> <<"b", "@", "x">>,
             password |-> "secret1!", agreeToTerms |-> FALSE]}

BodiesOf(kind) == IF kind = "login" THEN LoginBodies ELSE RegisterBodies

\* login route.ts lines 9-12, 30: loginSchema.safeParse; "" when the body is valid
loginSchema(body) ==
    IF ~isEmail(body.email) THEN "Invalid email format"
    ELSE IF PasswordLength(body.password) < 1 THEN "Password is required"
    ELSE ""

\* part_000 lines 96-102, 108: registerSchema.safeParse succeeds
registerSchema(body) ==
    /\ Len(body.username) >= 3 /\ Len(body.username) <= 20
    /\ isEmail(body.email) /\ Len(body.email) <= 255
    /\ PasswordLength(body.password) >= 8
    /\ body.agreeToTerms

AuthResponse(status, success, message, user) ==
    [status |-> status, success |-> success, message |-> message, user |-> user]

\* User.findOne({email}): the index of the first document with that email, or 0
findOneByEmail(users, email) ==
    LET hits == {i \in 1..Len(users) : users[i].email = email}
    IN IF hits = {} THEN 0 ELSE CHOOSE i \in hits : \A j \in hits : i <= j

\* User.findOne({$or: [{email}, {username}]})
findOneByEmailOrUsername(users, email, username) ==
    LET hits == {i \in 1..Len(users) :
                    users[i].email = email \/ users[i].username = username}
    IN IF hits = {} THEN 0 ELSE CHOOSE i \in hits : \A j \in hits : i <= j

\* user.comparePassword(candidate)
comparePassword(user, candidate) == user.password = candidate

AuthInit ==
    /\ Parked
    /\ env = [VERCEL |-> FALSE, PRODUCTION |-> FALSE, AWS_LAMBDA |-> FALSE]
    /\ SessionsIdle /\ ScrapeIdle /\ ClientIdle
    /\ \E unique \in BOOLEAN : db = [users |-> <<KnownUser>>, unique |-> unique]
    /\ \E kinds \in [Reqs -> {"login", "register"}] :
         \E b1 \in BodiesOf(kinds[1]), b2 \in BodiesOf(kinds[2]) :
            /\ reqs = [r \in Reqs |->
                         [ kind |-> kinds[r], body |-> IF r = 1 THEN b1 ELSE b2,
                           pc |-> "start",
                           found |-> 0,           \* what findOne returned
                           conflict |-> FALSE,    \* a user with the email or username
                                                  \* was stored at the last query
                           created |-> FALSE,     \* the request has stored a user
                           response |-> AuthResponse(0, FALSE, "", <<>>) ]]

authrest == <<capture, sessionsvars, scrape, client>>

Respond(r, res) == [reqs EXCEPT ![r].pc = "done", ![r].response = res]

\* login lines 16-40: the body is read, parsed and validated
LoginParse(r) ==
    /\ reqs[r].kind = "login" /\ reqs[r].pc = "start"
    /\ LET body == reqs[r].body
       IN reqs' = IF body.shape = "empty"
                  THEN Respond(r, AuthResponse(400, FALSE, "Missing request body", <<>>))
                  ELSE IF body.shape = "invalid_json"
                  THEN Respond(r, AuthResponse(400, FALSE, "Invalid JSON format", <<>>))
                  ELSE IF loginSchema(body) # ""
                  THEN Respond(r, AuthResponse(400, FALSE, loginSchema(body), <<>>))
                  ELSE [reqs EXCEPT ![r].pc = "connect"]
    /\ UNCHANGED <<db, authrest>>

\* login line 43: dbConnect(), which may throw into the catch of lines 82-91
LoginConnect(r) ==
    /\ reqs[r].kind = "login" /\ reqs[r].pc = "connect"
    /\ \/ reqs' = [reqs EXCEPT ![r].pc = "lookup"]
       \/ reqs' = Respond(r, AuthResponse(500, FALSE, "Internal server error", <<>>))
    /\ UNCHANGED <<db, authrest>>

\* login lines 45-49
LoginLookup(r) ==
    /\ reqs[r].kind = "login" /\ reqs[r].pc = "lookup"
    /\ LET i == findOneByEmail(db.users, toLowerCase(reqs[r].body.email))
       IN reqs' = IF i = 0
                  THEN Respond(r, AuthResponse(401, FALSE, "Invalid credentials", <<>>))
                  ELSE [reqs EXCEPT ![r].pc = "compare", ![r].found = i]
    /\ UNCHANGED <<db, authrest>>

\* the password check with a slip: its own message
wrongPassword_Explains == AuthResponse(401, FALSE, "Wrong password", <<>>)

\* login line 55
wrongPassword == AuthResponse(401, FALSE, "Invalid credentials", <<>>)

\* login lines 51-56
LoginCompare(r) ==
    /\ reqs[r].kind = "login" /\ reqs[r].pc = "compare"
    /\ reqs' = IF comparePassword(db.users[reqs[r].found], reqs[r].body.password)
               THEN [reqs EXCEPT ![r].pc = "stats"]
               ELSE Respond(r, wrongPassword)
    /\ UNCHANGED <<db, authrest>>

\* login lines 58-80: the statistics are saved, or the save throws and is logged;
\* then the success response
LoginSuccess(r) ==
    /\ reqs[r].kind = "login" /\ reqs[r].pc = "stats"
    /\ LET user == db.users[reqs[r].found]
       IN reqs' = Respond(r, AuthResponse(200, TRUE, "Login successful",
                                          [username |-> user.username,
                                           email |-> user.email]))
    /\ UNCHANGED <<db, authrest>>

\* part_000 lines 105-115: dbConnect outside the try, then the body is parsed and
\* validated; request.json() throws into the catch of lines 140-143
RegisterParse(r) ==
    /\ reqs[r].kind = "register" /\ reqs[r].pc = "start"
    /\ LET body == reqs[r].body
       IN \/ reqs' = Respond(r, AuthResponse(500, FALSE, "dbConnect rejected", <<>>))
          \/ reqs' = IF body.shape = "invalid_json"
                     THEN Respond(r, AuthResponse(500, FALSE, "Internal server error", <<>>))
                     ELSE IF ~registerSchema(body)
                     THEN Respond(r, AuthResponse(400, FALSE, "Validation failed", <<>>))
                     ELSE [reqs EXCEPT ![r].pc = "lookup"]
    /\ UNCHANGED <<db, authrest>>

\* part_000 lines 117-122
RegisterLookup(r) ==
    /\ reqs[r].kind = "register" /\ reqs[r].pc = "lookup"
    /\ LET i == findOneByEmailOrUsername(db.users, toLowerCase(reqs[r].body.email),
                                         toLowerCase(reqs[r].body.username))
       IN reqs' = IF i # 0
                  THEN [Respond(r, AuthResponse(409, FALSE, "User already exists", <<>>))
                          EXCEPT ![r].found = i, ![r].conflict = TRUE]
                  ELSE [reqs EXCEPT ![r].pc = "save"]
    /\ UNCHANGED <<db, authrest>>

\* part_000 lines 126-143: new User(...).save(); a collection with unique indexes
\* rejects a duplicate, and the rejection reaches the catch
RegisterSave(r) ==
    /\ reqs[r].kind = "register" /\ reqs[r].pc = "save"
    /\ LET newUser == [username |-> toLowerCase(reqs[r].body.username),
                       email |-> toLowerCase(reqs[r].body.email),
                       password |-> reqs[r].body.password]
           dup == findOneByEmailOrUsername(db.users, newUser.email, newUser.username) # 0
       IN IF db.unique /\ dup
          THEN /\ reqs' = [Respond(r, AuthResponse(500, FALSE, "Internal server error", <<>>))
                             EXCEPT ![r].conflict = TRUE]
               /\ db' = db
          ELSE /\ reqs' = [Respond(r, AuthResponse(201, FALSE, "User registered successfully",
                                                   [username |-> newUser.username,
                                                    email |-> newUser.email]))
                             EXCEPT ![r].conflict = dup, ![r].created = TRUE]
               /\ db' = [db EXCEPT !.users = Append(@, newUser)]
    /\ UNCHANGED authrest

AuthNext ==
    \E r \in Reqs :
        \/ LoginParse(r) \/ LoginConnect(r) \/ LoginLookup(r) \/ LoginCompare(r)
        \/ LoginSuccess(r)
        \/ RegisterParse(r) \/ RegisterLookup(r) \/ RegisterSave(r)

AuthSpec == AuthInit /\ [][AuthNext]_vars

(***************************************************************************)
(* Properties.                                                             *)
(***************************************************************************)
Selectable == dom \ {Body}
Installed == loaded /\ page.accDefined /\ page.listeners > 0

\* the entries of the accumulator that were pushed by a click on e
EntriesOf(e) == {i \in 1..Len(page.origin) : page.origin[i] = e}

\* C1: toggle idempotence - in every accumulator state, clicking an unselected
\* element and then clicking it again leaves the accumulator as it was.
C1_ToggleIdempotent ==
    Installed =>
        \A t \in Selectable :
            ~page.marked[t] =>
                onClick(onClick(page, t, variant), t, variant).acc = page.acc

\* C2: in interactive mode, when Enter is the terminal keystroke the 200 response
\* carries exactly the accumulator as it was at the keypress, in the same order.
C2_EnterDeliversAccumulator ==
    (response.status = 200 /\ log.firstKey = "Enter")
        => response.selectedElements = log.firstAcc

C2_Witness ==
    /\ variant = "route"
    /\ response.status = 200
    /\ log.firstKey = "Enter"
    /\ Len(response.selectedElements) = 2
    /\ response.selectedElements[1] # response.selectedElements[2]

\* C3: Escape always sends the empty set over the bridge, and a session ended by
\* Escape after any clicks has the result [].
C3_EscapeStep ==
    (Len(bridge') = Len(bridge) + 1 /\ bridge'[Len(bridge')].key = "Escape")
        => bridge'[Len(bridge')].elements = <<>>

C3_EscapeDeliversEmpty ==
    /\ [][C3_EscapeStep]_vars
    /\ []((response.status = 200 /\ log.firstKey = "Escape")
            => response.selectedElements = <<>>)

C3_Witness ==
    /\ response.status = 200
    /\ log.firstKey = "Escape"
    /\ Len(log.firstAcc) = 2

\* C4: over one capture session window.sendSelectedData is invoked exactly once:
\* never twice, and once when the response follows the interactive wait.
C4_DeliveryExactlyOnce ==
    /\ log.sendCalls <= 1
    /\ (response.status = 200 /\ ~(variant = "route" /\ isServerless(env)))
          => log.sendCalls = 1

\* C5: headless short-circuit - with a browser launched headless the controller
\* never waits on the pending-result promise.
C5_HeadlessShortCircuit ==
    (browser # "null" /\ headless) => pc # "await"

\* C6: when context or page creation fails after the launch, browser.close is
\* invoked exactly once by the time the response is returned, close failing or not.
C6_CloseExactlyOnce ==
    (log.failedAt \in {"newContext", "newPage"} /\ response.status # 0)
        => log.closeCalls = 1

\* C7: no leaked handles - whenever a response is returned after the browser was
\* launched, browser.close has been invoked.
C7_NoLeakedHandles ==
    (response.status # 0 /\ browser # "null") => log.closeCalls >= 1

C7_Witness ==
    /\ response.status = 500
    /\ log.failedAt = "goto"
    /\ browser = "closed"

\* C8: an element carrying the marker class has at most one accumulator entry.
C8_AtMostOneEntry ==
    \A e \in Selectable : page.marked[e] => Cardinality(EntriesOf(e)) <= 1

\* C9: identity rule - with two distinct elements of identical (tag, text) both
\* selected, a click on either removes exactly the earliest entry with that
\* (tag, text) and leaves the other.
C9_IdentityRule ==
    Installed =>
        \A t, u \in Selectable :
            ( /\ t # u
              /\ Tag(t) = Tag(u) /\ SelectText(t) = SelectText(u)
              /\ page.marked[t] /\ page.marked[u]
              /\ EntriesOf(t) # {} /\ EntriesOf(u) # {} )
            => LET first == findIndex(page.acc, Tag(t), SelectText(t))
               IN onClick(page, t, variant).acc = splice(page.acc, first)

\* C10: hover alone never selects - pointer-over and pointer-out leave the
\* accumulator and every marker class unchanged, and a session without a click
\* returns the empty set.
C10_HoverStep ==
    (\E t \in dom : MouseOver(t) \/ MouseOut(t))
        => (page'.acc = page.acc /\ page'.marked = page.marked)

C11_NavigationStep ==
    (pc = "await" /\ page'.doc > page.doc /\ log'.lastNav = "new")
        => pendingInject' = pendingInject + 1

C11_NavigationReinstrumented == [][C11_NavigationStep]_vars

\* C12: input errors - a body that is not JSON, a missing url and a malformed url
\* are each answered with 400, and no browser is launched for them.
C12_InputErrors ==
    (request # "url_ok" /\ response.status # 0)
        => (response.status = 400 /\ browser = "null" /\ log.failedAt = "")

\* C13: every failure becomes a response - POST never ends without a response,
\* and when a step has thrown the response is a 500 with an error body.
C13_FailureBecomesResponse ==
    /\ pc = "done" => response.status # 0
    /\ (pc = "done" /\ (error # "" \/ log.failedAt # ""))
          => (response.status = 500 /\ response.error # "")

C13_Witness ==
    /\ pc = "done"
    /\ error = "close rejected"
    /\ log.failedAt = "goto"
    /\ log.closeCalls = 2
    /\ browser = "open"
    /\ response.status = 500

\* C14: a cleanup failure never overrides an obtained result - once the terminal
\* delivery has arrived, POST ends with a 200 response that carries the delivered
\* set, whether the closes (and, in part_001, the CSV write) fail or not.
C14_CleanupNeverOverrides ==
    (pc = "done" /\ promise.state = "resolved")
        => (response.status = 200 /\ response.selectedElements = promise.value)

C14_Witness ==
    /\ pc = "done"
    /\ variant = "persist"
    /\ promise.state = "resolved"
    /\ Len(promise.value) = 2
    /\ csvPath # "" /\ ~csvFile
    /\ browser = "open" /\ loaded
    /\ response.status = 200

\* C18: install is idempotent - after any number of install calls on a document,
\* with or without a terminal key in between, at most one set of the four
\* handlers is registered on it.
C18_InstallIdempotent == page.listeners <= 1

C18_Witness ==
    /\ page.doc = 0
    /\ log.navs = 1
    /\ pendingInject = 0
    /\ log.sendCalls = 1
    /\ page.listeners = 1
    /\ \E e \in Selectable : page.marked[e] /\ page.border[e] = savedStyle

\* C19: installing again on a document that already has an accumulator leaves
\* the accumulator and every marker class as they were.
C19_ReinstallStep ==
    (WatcherInject /\ page.accDefined)
        => (page'.acc = page.acc /\ page'.marked = page.marked)

C19_ReinstallKeepsSelections == [][C19_ReinstallStep]_vars

C19_Witness ==
    /\ page.doc = 0
    /\ log.navs = 1
    /\ log.firstKey = "Enter"
    /\ log.sendCalls = 2
    /\ Len(log.firstAcc) = 1
    /\ bridge # <<>>
    /\ bridge[Len(bridge)].key = "Enter"
    /\ Len(bridge[Len(bridge)].elements) = 2
    /\ bridge[Len(bridge)].elements[1] = log.firstAcc[1]

\* C20: selections are scoped per document - a newly committed document starts
\* without an accumulator, every accumulator entry is the snapshot of an element
\* clicked on the current document, and Enter sends exactly that accumulator.
C20_NewDocumentStep ==
    (page'.doc > page.doc) => (~page'.accDefined /\ page'.acc = <<>>)

C20_EnterStep ==
    (Len(bridge') = Len(bridge) + 1 /\ bridge'[Len(bridge')].key = "Enter")
        => bridge'[Len(bridge')].elements = page.acc

C20_EntriesOfThisDocument ==
    /\ Len(page.acc) = Len(page.origin)
    /\ \A i \in 1..Len(page.acc) :
          /\ page.origin[i] \in Selectable
          /\ page.acc[i] = Snapshot(page, page.origin[i], variant)

C20_ScopedPerDocument ==
    /\ [][C20_NewDocumentStep /\ C20_EnterStep]_vars
    /\ []C20_EntriesOfThisDocument

C20_Witness ==
    /\ page.doc = 1
    /\ log.firstKey = "Enter"
    /\ Len(log.firstAcc) = 1
    /\ log.sendCalls = 2
    /\ bridge # <<>>
    /\ bridge[Len(bridge)].key = "Enter"
    /\ Len(bridge[Len(bridge)].elements) = 1
    /\ bridge[Len(bridge)].elements # log.firstAcc

\* first position of a token in a string, 0 when it is absent
indexOf(s, ch) ==
    LET hits == {i \in 1..Len(s) : s[i] = ch}
    IN IF hits = {} THEN 0 ELSE CHOOSE i \in hits : \A j \in hits : i <= j

\* String.prototype.split(sep) for a one-token separator
RECURSIVE split(_, _)
split(s, sep) ==
    LET k == indexOf(s, sep)
    IN IF k = 0 THEN <<s>>
       ELSE <<SubSeq(s, 1, k - 1)>> \o split(SubSeq(s, k + 1, Len(s)), sep)

\* part occurs in s as a run of consecutive tokens
contains(s, part) ==
    \E k \in 1..(Len(s) - Len(part) + 1) : SubSeq(s, k, k + Len(part) - 1) = part

\* the cell the escaping rule prescribes for a string field
EscapedCell(str) ==
    <<Quote>> \o replaceAll(replaceAll(str, Quote, <<Quote, Quote>>), LineFeed, <<" ">>)
        \o <<Quote>>

Exported == call.returned /\ call.fn \in Exporters

\* C15: CSV escaping - in every exporter the text of every element is exported
\* as the cell with its quotes doubled and its line breaks replaced by a space,
\* so the only line breaks of the output are those between rows.
C15_CsvEscaping ==
    Exported =>
        /\ \A i \in 1..Len(call.arg) :
              contains(call.result, EscapedCell(call.arg[i].text))
        /\ Len(split(call.result, LineFeed)) = Len(call.arg) + 1

\* C16: an empty selection set is exported as the empty string; a non-empty one
\* as a header row followed by exactly one row per element, in set order.
C16_RowsPerElement ==
    Exported =>
        IF call.arg = <<>> THEN call.result = <<>>
        ELSE LET lines == split(call.result, LineFeed)
             IN /\ Len(lines) = Len(call.arg) + 1
                /\ lines[1] \in { join([k \in 1..Len(columns) |-> <<columns[k]>>], <<",">>),
                                  join([k \in 1..Len(headers) |-> <<headers[k]>>], <<",">>) }
                /\ \A i \in 1..Len(call.arg) :
                      /\ i + 1 <= Len(lines)
                      /\ contains(lines[i + 1], EscapedCell(call.arg[i].text))

\* C17: url normalization - page.goto gets the input itself when it starts with
\* http:// or https://, https: and the input when it is protocol-relative, and
\* https:// and the input when it has no scheme.
C17_UrlNormalization ==
    (call.returned /\ call.fn = "navigationUrl") =>
        call.result =
            IF \/ startsWith(call.arg, <<"http:", "/", "/">>)
               \/ startsWith(call.arg, <<"https:", "/", "/">>)
            THEN call.arg
            ELSE IF startsWith(call.arg, <<"/", "/">>)
            THEN <<"https:">> \o call.arg
            ELSE <<"https:", "/", "/">> \o call.arg

\* C21: the navigation watcher schedules no instrumentor run for a sub-frame
\* navigation, a navigation to about:blank or a navigation to a file:// url, and
\* a document is instrumented only once it has reached domcontentloaded.
C21_IgnoredStep ==
    (log'.navs > log.navs /\ log'.lastNav \in {"sub"} \cup IgnoredUrls)
        => pendingInject' = pendingInject

\* a step of the watcher's callback that has run the instrumentor
C21_InjectStep ==
    (pendingInject' = pendingInject - 1 /\ pc' = pc /\ browser' = browser /\ page' # page)
        => page.ready

C21_WatcherFilters == [][C21_IgnoredStep /\ C21_InjectStep]_vars

C21_Witness ==
    /\ variant = "persist"
    /\ watcher
    /\ pc = "await"
    /\ log.lastNav = "about:blank"
    /\ page.ready
    /\ pendingInject = 0
    /\ ~page.accDefined

\* C22: the promise exists and both bridge entry points are exposed before any
\* document is instrumented, so the first terminal keystroke is either on its way
\* to the controller or has resolved the promise with what it sent.
C22_BridgeBeforeInstrumentor ==
    /\ page.accDefined
          => /\ promise.state # "absent"
             /\ exposed = {"sendSelectedData", "setKeypressHandled"}
    /\ log.sendCalls >= 1
          => \/ promise.state = "resolved"
             \/ bridge # <<>> /\ browser = "open" /\ promise.state = "pending"
    /\ promise.state = "resolved"
          => promise.value = IF log.firstKey = "Enter" THEN log.firstAcc ELSE <<>>

C22_Witness ==
    /\ pc = "await"
    /\ promise.state = "pending"
    /\ log.sendCalls = 1
    /\ Len(bridge) = 1
    /\ bridge[1].elements # <<>>

\* C23: with a visible browser, after a successful navigation nothing is closed
\* and no response is returned before sendSelectedData has been called, and the
\* 200 response that follows the delivery comes after browser.close.
C23_LeavesWaitOnDelivery ==
    /\ ( /\ ~headless /\ browser # "null"
         /\ log.gotoCalls = 1 /\ log.failedAt = "" /\ error = ""
         /\ (response.status # 0 \/ log.closeCalls > 0 \/ pc \in {"close", "closeAll"}) )
          => log.sendCalls >= 1
    /\ (response.status = 200 /\ promise.state = "resolved") => log.closeCalls = 1

C23_Witness ==
    /\ variant = "route"
    /\ ~headless
    /\ response.status = 200
    /\ log.sendCalls = 1
    /\ log.closeCalls = 1
    /\ browser = "closed"

\* C24: a failed page load is followed by browser.close and a 500 response; the
\* load is attempted at most once and the controller never waits for a selection
\* after it.
C24_NavigationFailure ==
    /\ log.gotoCalls <= 1
    /\ log.failedAt = "goto"
          => /\ pc \in {"navError", "catch", "done"}
             /\ promise.state = "pending"
    /\ (log.failedAt = "goto" /\ pc = "done")
          => (response.status = 500 /\ log.closeCalls >= 1)

C24_Witness ==
    /\ pc = "done"
    /\ log.failedAt = "goto"
    /\ log.gotoCalls = 1
    /\ log.closeCalls = 1
    /\ response.error = "Failed to load URL"

\* C25: when the injected script throws during the first evaluation, POST goes on
\* to the next step with the browser open, without a response and without an
\* error, and so comes to wait for the selection.
C25_InjectFailureStep ==
    (pc = "inject" /\ pc' # "inject" /\ page' = page)
        => /\ pc' \in {"checkServerless", "registerWatcher"}
           /\ browser' = browser
           /\ response' = response
           /\ error' = error
           /\ log'.closeCalls = log.closeCalls

C25_InstrumentationNonFatal ==
    /\ [][C25_InjectFailureStep]_vars
    /\ [](pc \in {"checkServerless", "registerWatcher", "await"}
            => (browser = "open" /\ response.status = 0 /\ error = ""))

C25_Witness ==
    /\ pc = "await"
    /\ ~headless
    /\ browser = "open"
    /\ loaded
    /\ log.navs = 0
    /\ ~page.accDefined
    /\ page.listeners = 0

\* a step in which the keydown handler handles Escape
EscapeHandled ==
    Len(bridge') = Len(bridge) + 1 /\ bridge'[Len(bridge')].key = "Escape"

\* C26: the selection set is cleared on cancellation - after Escape has been
\* handled the accumulator of the page is empty.
C26_EscapeStep == EscapeHandled => page'.acc = <<>>

C26_EscapeClearsAccumulator == [][C26_EscapeStep]_vars

\* C27: after Escape no element has the marker class or the selected border, the
\* element that was highlighted has its saved border and cursor back, and no
\* listener is left on the document.
C27_EscapeStep ==
    EscapeHandled
        => /\ \A e \in Elements : ~page'.marked[e] /\ page'.border[e] # selectedStyle
           /\ page.lastHighlighted # None
                 => /\ page'.border[page.lastHighlighted]
                         = IF Truthy(page.origBorder) THEN page.origBorder ELSE ""
                    /\ page'.cursor[page.lastHighlighted]
                         = IF Truthy(page.origCursor) THEN page.origCursor ELSE ""
           /\ page'.lastHighlighted = None
           /\ page'.listeners = 0

C27_EscapeCleansUp == [][C27_EscapeStep]_vars

C27_Witness ==
    /\ pc = "await"
    /\ log.firstKey = "Escape"
    /\ log.sendCalls = 1
    /\ Len(log.firstAcc) = 2
    /\ page.accDefined
    /\ page.listeners = 0
    /\ \A e \in Elements : ~page.marked[e]

\* C28: hover restoration is exact - in a session without a click, when the
\* pointer leaves the highlighted element, the element's border and cursor are
\* again those of the markup.
C28_HoverOutStep ==
    \A t \in Selectable :
        (~log.clicked /\ page.lastHighlighted = t /\ MouseOut(t))
            => /\ page'.border[t] = MarkupBorder(t)
               /\ page'.cursor[t] = MarkupCursor(t)

C28_HoverRestorationExact == [][C28_HoverOutStep]_vars

\* C29: while the handlers are installed, every element with the marker class
\* has the selected border, and the last-highlighted element has no marker class.
C29_MarkedKeepSelectedStyle ==
    page.listeners > 0
        => /\ \A e \in Selectable : page.marked[e] => page.border[e] = selectedStyle
           /\ page.lastHighlighted # None => ~page.marked[page.lastHighlighted]

\* C30: the body never has the marker class or the highlight border, is never
\* the last-highlighted element, and no accumulator entry comes from a click on it.
C30_BodyNeverSelected ==
    /\ ~page.marked[Body]
    /\ page.border[Body] \notin {highlightStyle, selectedStyle, savedStyle}
    /\ page.lastHighlighted # Body
    /\ \A i \in 1..Len(page.origin) : page.origin[i] # Body

\* a click has been handled and has left no trace: in this document every click
\* on a link leaves one, so the click was on the body
C30_Witness ==
    /\ dom = {"body", "a1", "a2"}
    /\ Installed
    /\ log.clicked
    /\ log.navs = 0
    /\ log.sendCalls = 0
    /\ page.acc = <<>>
    /\ page.border["a2"] = MarkupBorder("a2")

\* a step in which the keydown handler handles Enter
EnterHandled ==
    Len(bridge') = Len(bridge) + 1 /\ bridge'[Len(bridge')].key = "Enter"

\* C31: what is marked is what is delivered - when Enter is pressed the delivered
\* set holds exactly one entry for every element with the marker class, none for
\* the others, and the (tag, text) of every entry is that of a marked element.
C31_EnterStep ==
    EnterHandled
        => LET delivered == bridge'[Len(bridge')].elements
           IN /\ delivered = page.acc
              /\ Len(delivered) = Cardinality({e \in Selectable : page.marked[e]})
              /\ \A e \in Selectable :
                    page.marked[e]
                        => \E i \in 1..Len(delivered) :
                              /\ delivered[i].tag = Tag(e)
                              /\ delivered[i].text = SelectText(e)
              /\ \A i \in 1..Len(delivered) :
                    \E e \in Selectable :
                        /\ page.marked[e]
                        /\ delivered[i].tag = Tag(e)
                        /\ delivered[i].text = SelectText(e)

C31_MarkedIsDelivered == [][C31_EnterStep]_vars

\* C32: in route.ts the headless launch and the skipped wait agree - the
\* controller is at the await of the pending-result promise only with a browser
\* that was launched with a visible window, whatever the environment.
C32_HeadlessAgreesWithWait ==
    (variant = "route" /\ pc = "await") => ~headless

\* C34: in the persisting variant csvPath is empty when the delivered set is
\* empty, and a non-empty csvPath names a file that was written.
C34_CsvPathNamesFile ==
    (variant = "persist" /\ response.status = 200)
        => /\ selectedElements = <<>> => csvPath = ""
           /\ csvPath # "" => csvFile

\* a session of part_001 that has its id and has not answered yet
Running(p) == posts[p].pc \in {"await", "write", "pause"}

\* C33: two sessions of the persisting variant that run side by side never have
\* the same sessionId, and so never the same csvPath.
C33_SessionIdsDiffer ==
    \A p, q \in DOMAIN posts :
        (p # q /\ Running(p) /\ Running(q))
            => /\ posts[p].sessionId # posts[q].sessionId
               /\ posts[p].csvPath # <<>> => posts[p].csvPath # posts[q].csvPath

\* C35: the scrape endpoint closes the browser it launched on every exit path -
\* when a response is returned after the launch, browser.close has been invoked.
C35_ScrapeClosesBrowser ==
    (scrape.pc = "done" /\ scrape.browser # "null") => scrape.closeCalls >= 1

\* requests of the page that have not been answered and handled yet
InFlight == Len(client.calls)

\* C36: client session guard - sessionActive and loading are true exactly while
\* a request to /api/mouse-mode is in flight, every outcome resets them, and no
\* request is issued while sessionActive is true.
C36_RequestStep ==
    client'.issued > client.issued => (~client.sessionActive /\ ~client.loading)

C36_SettleStep ==
    Len(client'.calls) < Len(client.calls)
        => (~client'.sessionActive /\ ~client'.loading)

C36_ClientSessionGuard ==
    /\ [](client.pc = "mounted"
            => /\ InFlight <= 1
               /\ client.sessionActive = (InFlight = 1)
               /\ client.loading = (InFlight = 1))
    /\ [][C36_RequestStep /\ C36_SettleStep]_vars

\* a second request is in flight after the first was answered with an error status
C36_Witness ==
    /\ client.pc = "mounted"
    /\ client.issued = 2
    /\ InFlight = 1
    /\ client.sessionActive /\ client.loading
    /\ client.error = ""

\* a login request with a valid body that got past dbConnect and was refused
RefusedLogin(r) ==
    /\ reqs[r].kind = "login" /\ reqs[r].pc = "done"
    /\ reqs[r].body.shape = "json"
    /\ reqs[r].response.status \notin {200, 400, 500}

\* C37: login does not reveal whether an email is registered - a well-formed
\* request with an unknown email and one with a known email and a wrong password
\* get the same response, status 401 with the same body.
C37_LoginIndistinguishable ==
    \A r \in DOMAIN reqs :
        /\ RefusedLogin(r)
              => reqs[r].response = AuthResponse(401, FALSE, "Invalid credentials", <<>>)
        /\ (reqs[r].kind = "login" /\ reqs[r].pc = "done"
              /\ reqs[r].response.status = 200)
              => /\ reqs[r].found # 0
                 /\ comparePassword(db.users[reqs[r].found], reqs[r].body.password)

\* both cases have happened: one request for an unknown email, one for the known
\* email with a wrong password, both answered
C37_Witness ==
    /\ DOMAIN reqs = Reqs
    /\ RefusedLogin(1) /\ RefusedLogin(2)
    /\ reqs[1].found = 0
    /\ reqs[2].found # 0
    /\ reqs[1].response = reqs[2].response

\* C38: registration keeps users unique - no two stored users have the same
\* email or the same username, and a registration for an email or username that
\* is stored gets 409 and creates no user.
C38_RegistrationUnique ==
    /\ \A i, j \in 1..Len(db.users) :
          i # j => /\ db.users[i].email # db.users[j].email
                   /\ db.users[i].username # db.users[j].username
    /\ \A r \in DOMAIN reqs :
          (reqs[r].kind = "register" /\ reqs[r].pc = "done" /\ reqs[r].conflict)
              => (reqs[r].response.status = 409 /\ ~reqs[r].created)

====
